---- MODULE Spec2Model ----
(***************************************************************************)
(* Sea otter social analysis (scripts/example.py).                         *)
(*                                                                         *)
(* The script builds one table (a pandas DataFrame) and hands it to four   *)
(* analysis functions.  The table is the sequence of its rows, each row a  *)
(* function from the column labels of the schema to the cell values.  The  *)
(* pandas and scipy calls of the script are modelled by what they compute: *)
(* boolean-mask selection, groupby/agg, groupby/size, value_counts/head,   *)
(* and the Mann-Whitney U statistic from mid-ranks.                        *)
(*                                                                         *)
(* Durations are small naturals; a mean is an exact fraction in lowest     *)
(* terms, and the U statistic is kept doubled (statistic2 = 2 * U) so that *)
(* the halves the mid-ranks produce stay integers.  Printing is not state. *)
(***************************************************************************)
EXTENDS Integers, Sequences, FiniteSets, TLC

VARIABLES
  df,       \* the rows of the DataFrame main() passes to every analysis
  columns,  \* the column labels of df (its schema)
  fn,       \* the function that ran last ("main" before the first call)
  locals,   \* the local names that function bound, as a record
  result    \* how it ended: returned a value, or raised

vars == <<df, columns, fn, locals, result>>

----------------------------------------------------------------------------
(* Bounds of the model.                                                    *)

MaxRowsAgg == 3
MaxRowsSocial == 3
MaxRowsStats == 4
MaxRowsSchema == 1

----------------------------------------------------------------------------
(* The schema and the labels load_sample_data draws from.                  *)

AllColumns ==
  {"otter_id", "partner_id", "behavior_type", "duration_minutes",
   "location", "time_of_day"}

\* Python's str order on the labels (groupby sorts its keys).
Collation ==
  <<"afternoon", "evening", "foraging", "grooming", "kelp_forest", "morning",
    "open_water", "otter_001", "otter_002", "otter_003", "play", "rest",
    "rocky_shore">>

StrRank(s) == CHOOSE i \in DOMAIN Collation : Collation[i] = s

StrLeq(a, b) == StrRank(a) <= StrRank(b)

TupleLeq(p, q) ==
  \/ StrRank(p[1]) < StrRank(q[1])
  \/ p[1] = q[1] /\ StrLeq(p[2], q[2])

----------------------------------------------------------------------------
(* pandas: column access, boolean masks, selection.                        *)

Min(a, b) == IF a <= b THEN a ELSE b

\* table[c] : the Series of column c.
Column(table, c) == [i \in 1..Len(table) |-> table[i][c]]

\* series == v
EqMask(series, v) == [i \in 1..Len(series) |-> series[i] = v]

\* Mutant of IsinMask: only the first of the values is looked for.
IsinMaskFirstOnly(series, values) ==
  [i \in 1..Len(series) |->
     series[i] = (CHOOSE v \in values : \A w \in values : StrLeq(v, w))]

\* series.isin(values)
IsinMask(series, values) == [i \in 1..Len(series) |-> series[i] \in values]

\* Mutant of SelectRows: the selected rows come out in reverse order.
RECURSIVE SelectRowsReversed(_, _)
SelectRowsReversed(table, mask) ==
  IF Len(table) = 0 THEN <<>>
  ELSE LET rest == SelectRowsReversed(Tail(table), Tail(mask))
       IN  IF Head(mask) THEN rest \o <<Head(table)>> ELSE rest

\* table[mask] : the rows whose mask entry is True, in the table's order.
RECURSIVE SelectRows(_, _)
SelectRows(table, mask) ==
  IF Len(table) = 0 THEN <<>>
  ELSE LET rest == SelectRows(Tail(table), Tail(mask))
       IN  IF Head(mask) THEN <<Head(table)>> \o rest ELSE rest

----------------------------------------------------------------------------
(* How a call ends.                                                        *)

NoCall == [status |-> "none"]

Returned(v) == [status |-> "returned", value |-> v]

ReturnedNone == [status |-> "returned", none |-> TRUE]

\* Mutant of KeyError: the missing label is swallowed (a lookup such as
\* df.get(label)) and the call returns None.
KeyErrorSwallowed(label) == [status |-> "returned", none |-> TRUE]

\* pandas raises KeyError(label) for a label that is no column.
KeyError(label) == [status |-> "raised", exception |-> "KeyError", key |-> label]

NoLocals == [df |-> "param"]

----------------------------------------------------------------------------
(* The tables main() may hand over.                                        *)

TablesOver(rows, n) == UNION {[1..k -> rows] : k \in 0..n}

FullRows(otters, partners, behaviors, durations, locations, times) ==
  [otter_id : otters, partner_id : partners, behavior_type : behaviors,
   duration_minutes : durations, location : locations, time_of_day : times]

Project(row, cols) == [c \in cols |-> row[c]]

----------------------------------------------------------------------------
(* pandas: Series.mean, groupby().agg(['count', 'mean']), groupby().size(), *)
(* value_counts, head.                                                     *)

RECURSIVE Sum(_)
Sum(series) == IF Len(series) = 0 THEN 0 ELSE Head(series) + Sum(Tail(series))

RECURSIVE Gcd(_, _)
Gcd(a, b) == IF b = 0 THEN a ELSE Gcd(b, a % b)

NaN == [nan |-> TRUE]

\* An exact fraction in lowest terms.
Fraction(n, d) == [num |-> n \div Gcd(n, d), den |-> d \div Gcd(n, d)]

\* Mutant of mean: integer division drops the fractional part.
meanTruncated(series) ==
  IF Len(series) = 0 THEN NaN ELSE Fraction(Sum(series) \div Len(series), 1)

\* series.mean(): the arithmetic mean, NaN for an empty Series.
mean(series) ==
  IF Len(series) = 0 THEN NaN ELSE Fraction(Sum(series), Len(series))

\* The elements of a set of labels in ascending str order.
RECURSIVE SortLabels(_)
SortLabels(S) ==
  IF S = {} THEN <<>>
  ELSE LET m == CHOOSE x \in S : \A y \in S : StrLeq(x, y)
       IN  <<m>> \o SortLabels(S \ {m})

\* The elements of a set of label pairs in ascending tuple order.
RECURSIVE SortTuples(_)
SortTuples(S) ==
  IF S = {} THEN <<>>
  ELSE LET m == CHOOSE x \in S : \A y \in S : TupleLeq(x, y)
       IN  <<m>> \o SortTuples(S \ {m})

\* Mutant of GroupByAgg: one row per value that occurs anywhere in the
\* DataFrame (a categorical column grouped with observed=False), the ones
\* absent from the table with count 0 and mean NaN.
GroupByAggAllCategories(table, by, valueColumn) ==
  LET keys == SortLabels({df[i][by] : i \in 1..Len(df)})
      group(k) == SelectRows(table, EqMask(Column(table, by), k))
  IN  [j \in 1..Len(keys) |->
         [key   |-> keys[j],
          count |-> Len(group(keys[j])),
          mean  |-> mean(Column(group(keys[j]), valueColumn))]]

\* table.groupby(by)[valueColumn].agg(['count', 'mean']): one row per value
\* of column `by` that occurs in the table, in ascending order of the value.
GroupByAgg(table, by, valueColumn) ==
  LET keys == SortLabels({table[i][by] : i \in 1..Len(table)})
      group(k) == SelectRows(table, EqMask(Column(table, by), k))
  IN  [j \in 1..Len(keys) |->
         [key   |-> keys[j],
          count |-> Len(group(keys[j])),
          mean  |-> mean(Column(group(keys[j]), valueColumn))]]

\* Mutant of GroupBySize: a pair of an otter with itself is left out.
GroupBySizeNoSelfPairs(table, by1, by2, name) ==
  LET keys == SortTuples({k \in {<<table[i][by1], table[i][by2]>> :
                                   i \in 1..Len(table)} : k[1] # k[2]})
      size(k) == Cardinality({i \in 1..Len(table) :
                                table[i][by1] = k[1] /\ table[i][by2] = k[2]})
  IN  [j \in 1..Len(keys) |->
         (by1 :> keys[j][1]) @@ (by2 :> keys[j][2]) @@ (name :> size(keys[j]))]

\* table.groupby([by1, by2]).size().reset_index(name=name): one row per pair
\* of values that occurs in the table, in ascending order of the pair.
GroupBySize(table, by1, by2, name) ==
  LET keys == SortTuples({<<table[i][by1], table[i][by2]>> : i \in 1..Len(table)})
      size(k) == Cardinality({i \in 1..Len(table) :
                                table[i][by1] = k[1] /\ table[i][by2] = k[2]})
  IN  [j \in 1..Len(keys) |->
         (by1 :> keys[j][1]) @@ (by2 :> keys[j][2]) @@ (name :> size(keys[j]))]

\* Mutant of value_counts: the entries are left unsorted (sort=False).
value_countsUnsorted(series) ==
  LET values == {series[i] : i \in 1..Len(series)}
      n(v) == Cardinality({i \in 1..Len(series) : series[i] = v})
      entries == {[value |-> v, count |-> n(v)] : v \in values}
  IN  {s \in [1..Cardinality(values) -> entries] :
         \A i, j \in DOMAIN s : i # j => s[i] # s[j]}

\* series.value_counts(): each distinct value with its number of occurrences,
\* sorted by descending count.  The sort looks at the counts alone (pandas
\* sort_values, numpy quicksort: not a stable sort), so every order of the
\* values with equal counts is a possible outcome.
value_counts(series) ==
  LET values == {series[i] : i \in 1..Len(series)}
      n(v) == Cardinality({i \in 1..Len(series) : series[i] = v})
      entries == {[value |-> v, count |-> n(v)] : v \in values}
  IN  {s \in [1..Cardinality(values) -> entries] :
         /\ \A i, j \in DOMAIN s : i # j => s[i] # s[j]
         /\ \A i, j \in DOMAIN s : i < j => s[i].count >= s[j].count}

TopN == 5

\* s.head(n): the first n entries, all of them when there are fewer.
head(s, n) == SubSeq(s, 1, Min(n, Len(s)))

----------------------------------------------------------------------------
(* scipy.stats: rankdata (mid-ranks) and mannwhitneyu's statistic.          *)

\* Mutant of rankdata2: ties get the lowest of their positions (method='min').
rankdata2Min(xy) ==
  [i \in 1..Len(xy) |-> 2 * Cardinality({j \in 1..Len(xy) : xy[j] < xy[i]}) + 2]

\* Twice the mid-rank of each element: a value's rank is the average of the
\* positions its ties occupy, (#smaller) + (#equal + 1) / 2.
rankdata2(xy) ==
  [i \in 1..Len(xy) |->
     2 * Cardinality({j \in 1..Len(xy) : xy[j] < xy[i]})
       + Cardinality({j \in 1..Len(xy) : xy[j] = xy[i]}) + 1]

\* Twice the statistic mannwhitneyu(x, y) returns: U1 = R1 - n1 (n1 + 1) / 2,
\* R1 the sum of the ranks of x in the pooled sample.
mannwhitneyu2(x, y) ==
  LET ranks2 == rankdata2(x \o y)
      n1 == Len(x)
      R1 == Sum(SubSeq(ranks2, 1, n1))
  IN  R1 - n1 * (n1 + 1)

SocialBehaviors == {"grooming", "play"}

----------------------------------------------------------------------------
(* The four analysis functions.  Each action is one call, from entry to    *)
(* its return or to the KeyError of the first label it looks up that is no *)
(* column; `locals` keeps the names bound by then.  The overall mean and   *)
(* median of lines 47-48 and 67-68 are printed, not kept: of them only the *)
(* lookup of 'duration_minutes' is modelled.  Line 109 binds statistic and *)
(* p_value in one assignment; statistic2 stands for the pair, the p-value  *)
(* itself is not computed here.                                            *)

Bind(name, v) == name :> v

\* Mutant of TableUntouched: the analysis stores a helper column in df.
TableGainsColumn ==
  /\ columns' = columns \cup {"is_social"}
  /\ df' = [i \in 1..Len(df) |-> df[i] @@ ("is_social" :> TRUE)]

\* No analysis assigns to df, to one of its columns or to its rows: every
\* use of df is a read that builds a new object.
TableUntouched == UNCHANGED <<df, columns>>

\* Mutant of HasBothSamples: one sample with a duration is enough.
HasEitherSample(grooming_durations, play_durations) ==
  Len(grooming_durations) > 0 \/ Len(play_durations) > 0

\* The guard of the test: both samples hold at least one duration.
HasBothSamples(grooming_durations, play_durations) ==
  Len(grooming_durations) > 0 /\ Len(play_durations) > 0

analyze_grooming_patterns ==
  /\ fn' = "analyze_grooming_patterns"
  /\ IF "behavior_type" \notin columns
       THEN /\ locals' = NoLocals
            /\ result' = KeyError("behavior_type")
       ELSE LET grooming_data ==
                  SelectRows(df, EqMask(Column(df, "behavior_type"), "grooming"))
            IN  IF "duration_minutes" \notin columns
                  THEN /\ locals' = NoLocals @@ Bind("grooming_data", grooming_data)
                       /\ result' = KeyError("duration_minutes")
                  ELSE IF "location" \notin columns
                  THEN /\ locals' = NoLocals @@ Bind("grooming_data", grooming_data)
                       /\ result' = KeyError("location")
                  ELSE /\ locals' =
                            NoLocals @@ Bind("grooming_data", grooming_data)
                              @@ Bind("grooming_by_location",
                                      GroupByAgg(grooming_data, "location",
                                                 "duration_minutes"))
                       /\ result' = Returned(grooming_data)
  /\ TableUntouched

analyze_play_patterns ==
  /\ fn' = "analyze_play_patterns"
  /\ IF "behavior_type" \notin columns
       THEN /\ locals' = NoLocals
            /\ result' = KeyError("behavior_type")
       ELSE LET play_data ==
                  SelectRows(df, EqMask(Column(df, "behavior_type"), "play"))
            IN  IF "duration_minutes" \notin columns
                  THEN /\ locals' = NoLocals @@ Bind("play_data", play_data)
                       /\ result' = KeyError("duration_minutes")
                  ELSE IF "time_of_day" \notin columns
                  THEN /\ locals' = NoLocals @@ Bind("play_data", play_data)
                       /\ result' = KeyError("time_of_day")
                  ELSE /\ locals' =
                            NoLocals @@ Bind("play_data", play_data)
                              @@ Bind("play_by_time",
                                      GroupByAgg(play_data, "time_of_day",
                                                 "duration_minutes"))
                       /\ result' = Returned(play_data)
  /\ TableUntouched

social_network_analysis ==
  /\ fn' = "social_network_analysis"
  /\ IF "behavior_type" \notin columns
       THEN /\ locals' = NoLocals
            /\ result' = KeyError("behavior_type")
       ELSE LET social_interactions ==
                  SelectRows(df, IsinMask(Column(df, "behavior_type"),
                                          SocialBehaviors))
            IN  IF "otter_id" \notin columns
                  THEN /\ locals' = NoLocals
                            @@ Bind("social_interactions", social_interactions)
                       /\ result' = KeyError("otter_id")
                  ELSE IF "partner_id" \notin columns
                  THEN /\ locals' = NoLocals
                            @@ Bind("social_interactions", social_interactions)
                       /\ result' = KeyError("partner_id")
                  ELSE LET interaction_counts ==
                             GroupBySize(social_interactions, "otter_id",
                                         "partner_id", "interaction_count")
                       IN  \E counts \in
                               value_counts(Column(social_interactions, "otter_id")) :
                             /\ locals' = NoLocals
                                  @@ Bind("social_interactions", social_interactions)
                                  @@ Bind("interaction_counts", interaction_counts)
                                  @@ Bind("value_counts", counts)
                                  @@ Bind("most_social", head(counts, TopN))
                             /\ result' = Returned(interaction_counts)
  /\ TableUntouched

statistical_tests ==
  /\ fn' = "statistical_tests"
  /\ IF "behavior_type" \notin columns
       THEN /\ locals' = NoLocals
            /\ result' = KeyError("behavior_type")
       ELSE IF "duration_minutes" \notin columns
       THEN /\ locals' = NoLocals
            /\ result' = KeyError("duration_minutes")
       ELSE LET grooming_durations ==
                  Column(SelectRows(df, EqMask(Column(df, "behavior_type"),
                                               "grooming")),
                         "duration_minutes")
                play_durations ==
                  Column(SelectRows(df, EqMask(Column(df, "behavior_type"),
                                               "play")),
                         "duration_minutes")
                bound == NoLocals @@ Bind("grooming_durations", grooming_durations)
                           @@ Bind("play_durations", play_durations)
            IN  /\ locals' =
                     IF HasBothSamples(grooming_durations, play_durations)
                       THEN bound @@ Bind("statistic2",
                                          mannwhitneyu2(grooming_durations,
                                                        play_durations))
                       ELSE bound
                /\ result' = ReturnedNone
  /\ TableUntouched

Next ==
  \/ analyze_grooming_patterns
  \/ analyze_play_patterns
  \/ social_network_analysis
  \/ statistical_tests

----------------------------------------------------------------------------
(* Specifications: the same program over different families of tables.     *)

InitCall ==
  /\ fn = "main"
  /\ locals = NoLocals
  /\ result = NoCall

\* A fixed row but for the fields given.
Row(behavior, duration, fields) ==
  fields @@ [otter_id |-> "otter_001", partner_id |-> "otter_002",
             behavior_type |-> behavior, duration_minutes |-> duration,
             location |-> "kelp_forest", time_of_day |-> "morning"]

SampleDurations == {1, 2, 3}

\* Rows that vary in what the filters and the group-by summaries read: the
\* behaviour and the duration, the location of a grooming row, the time of
\* day of a play row.
AggRows ==
  {Row("grooming", d, [location |-> l]) :
     d \in SampleDurations, l \in {"kelp_forest", "rocky_shore"}}
  \cup {Row("play", d, [time_of_day |-> t]) :
          d \in SampleDurations, t \in {"morning", "evening"}}
  \cup {Row("rest", d, <<>>) : d \in SampleDurations}

\* Rows that vary in what the social-network analysis reads: the behaviour
\* and, of a social row, the two otters (an otter may be its own partner).
SocialRows ==
  {Row(b, 1, [otter_id |-> o, partner_id |-> p]) :
     b \in SocialBehaviors, o \in {"otter_001", "otter_002"},
     p \in {"otter_001", "otter_002"}}
  \cup {Row(b, 1, <<>>) : b \in {"rest", "foraging"}}

\* Rows that vary in what the statistical test reads: the duration of a
\* grooming or play row.
StatsRows ==
  {Row(b, d, <<>>) : b \in {"grooming", "play"}, d \in SampleDurations}
  \cup {Row("rest", 1, <<>>)}

\* Rows for the tables over every schema.
SchemaRows ==
  FullRows({"otter_001", "otter_002"}, {"otter_001", "otter_002"},
           {"grooming", "play"}, {1}, {"kelp_forest", "rocky_shore"},
           {"morning", "evening"})

InitAgg ==
  /\ columns = AllColumns
  /\ df \in TablesOver(AggRows, MaxRowsAgg)
  /\ InitCall

InitSocial ==
  /\ columns = AllColumns
  /\ df \in TablesOver(SocialRows, MaxRowsSocial)
  /\ InitCall

InitStats ==
  /\ columns = AllColumns
  /\ df \in TablesOver(StatsRows, MaxRowsStats)
  /\ InitCall

\* Tables over every schema, the full one and those that lack columns.
InitSchema ==
  /\ columns \in SUBSET AllColumns
  /\ df \in TablesOver({Project(r, columns) : r \in SchemaRows}, MaxRowsSchema)
  /\ InitCall

Init == InitSchema

Spec == Init /\ [][Next]_vars

SpecAgg == InitAgg /\ [][Next]_vars

SpecSocial == InitSocial /\ [][Next]_vars

SpecStats == InitStats /\ [][Next]_vars

----------------------------------------------------------------------------
(* What the properties below are stated with: the rows of a table picked   *)
(* by their positions, independently of how the program computes them.     *)

\* The positions of the rows of T whose column c holds v.
Matching(T, c, v) == {i \in 1..Len(T) : T[i][c] = v}

\* The k-th smallest of a set of positions.
NthOf(M, k) == CHOOSE j \in M : Cardinality({m \in M : m <= j}) = k

\* R holds exactly the rows of T at the positions M, in the order of T.
IsSubTable(R, T, M) ==
  /\ Len(R) = Cardinality(M)
  /\ \A k \in 1..Len(R) : R[k] = T[NthOf(M, k)]

RECURSIVE SumAt(_, _, _)
SumAt(T, c, M) ==
  IF M = {} THEN 0
  ELSE LET i == CHOOSE j \in M : TRUE IN T[i][c] + SumAt(T, c, M \ {i})

Ran(f) == fn = f /\ result.status = "returned"

----------------------------------------------------------------------------
(* C1: the boolean-mask selection df[df['behavior_type'] == v] returns     *)
(* exactly the rows of df whose behavior_type is v: every returned row     *)
(* matches, as many rows come back as match (duplicates included), in the  *)
(* order they have in df, and when no row matches the function returns the *)
(* empty table instead of raising.                                         *)
C1_FilterExact ==
  /\ fn = "analyze_grooming_patterns" =>
       /\ result.status = "returned"
       /\ result.value = locals.grooming_data
       /\ IsSubTable(result.value, df, Matching(df, "behavior_type", "grooming"))
       /\ \A k \in 1..Len(result.value) :
            result.value[k].behavior_type = "grooming"
       /\ Matching(df, "behavior_type", "grooming") = {} => result.value = <<>>
  /\ fn = "analyze_play_patterns" =>
       /\ result.status = "returned"
       /\ result.value = locals.play_data
       /\ IsSubTable(result.value, df, Matching(df, "behavior_type", "play"))
       /\ \A k \in 1..Len(result.value) : result.value[k].behavior_type = "play"
       /\ Matching(df, "behavior_type", "play") = {} => result.value = <<>>

\* The filter drops the row between two different matching rows and keeps
\* those two in their order.
C1_Witness ==
  /\ Ran("analyze_grooming_patterns")
  /\ Len(df) = 3
  /\ df[2].behavior_type # "grooming"
  /\ df[1] # df[3]
  /\ result.value = <<df[1], df[3]>>

----------------------------------------------------------------------------
(* C4: the keys of a group-by summary are exactly the values of the        *)
(* grouping column that occur in the filtered table: every value of a      *)
(* filtered row has a group, each once, and a value that occurs only in    *)
(* rows the filter dropped has none; an empty filtered table gives an      *)
(* empty summary.                                                          *)
C4_GroupKeys ==
  /\ Ran("analyze_grooming_patterns") =>
       LET g == locals.grooming_by_location
           M == Matching(df, "behavior_type", "grooming")
       IN  /\ {g[j].key : j \in 1..Len(g)} = {df[i].location : i \in M}
           /\ Len(g) = Cardinality({df[i].location : i \in M})
           /\ M = {} => g = <<>>
  /\ Ran("analyze_play_patterns") =>
       LET g == locals.play_by_time
           M == Matching(df, "behavior_type", "play")
       IN  /\ {g[j].key : j \in 1..Len(g)} = {df[i].time_of_day : i \in M}
           /\ Len(g) = Cardinality({df[i].time_of_day : i \in M})
           /\ M = {} => g = <<>>

\* A location that occurs in df, but in no grooming row, has no group, and
\* the location of the grooming rows has one.
C4_Witness ==
  /\ Ran("analyze_grooming_patterns")
  /\ \E i, j \in 1..Len(df) :
       /\ df[i].behavior_type = "grooming" /\ df[i].location = "rocky_shore"
       /\ df[j].behavior_type # "grooming" /\ df[j].location = "kelp_forest"
  /\ \A i \in 1..Len(df) :
       df[i].behavior_type = "grooming" => df[i].location = "rocky_shore"
  /\ Len(locals.grooming_by_location) = 1
  /\ locals.grooming_by_location[1].key = "rocky_shore"

----------------------------------------------------------------------------
\* The summary row of one group, against the rows of df that make the group.
GroupIsExact(entry, rows) ==
  /\ entry.count = Cardinality(rows)
  /\ entry.count >= 1
  /\ entry.mean # NaN
  /\ entry.mean.den >= 1
  /\ entry.mean.num * entry.count = SumAt(df, "duration_minutes", rows) * entry.mean.den

(* C8: for every key k of a group-by summary, count(k) is the number of    *)
(* filtered rows whose grouping column is k (at least 1), and mean(k) is   *)
(* the arithmetic mean of duration_minutes over exactly those rows:        *)
(* mean(k) * count(k) is the sum of their durations.  Rows of the other    *)
(* groups contribute to neither.  The values [2, 4, 6] have mean 4, the    *)
(* single value [1] has mean 1.                                            *)
C8_CountAndMean ==
  /\ Ran("analyze_grooming_patterns") =>
       LET g == locals.grooming_by_location
       IN  \A j \in 1..Len(g) :
             GroupIsExact(g[j], {i \in Matching(df, "behavior_type", "grooming") :
                                   df[i].location = g[j].key})
  /\ Ran("analyze_play_patterns") =>
       LET g == locals.play_by_time
       IN  \A j \in 1..Len(g) :
             GroupIsExact(g[j], {i \in Matching(df, "behavior_type", "play") :
                                   df[i].time_of_day = g[j].key})
  /\ mean(<<2, 4, 6>>) = [num |-> 4, den |-> 1]
  /\ mean(<<1>>) = [num |-> 1, den |-> 1]

\* Two groups, one of them of two rows whose mean is no whole number.
C8_Witness ==
  /\ Ran("analyze_grooming_patterns")
  /\ Len(locals.grooming_by_location) = 2
  /\ \E j \in 1..2 :
       /\ locals.grooming_by_location[j].count = 2
       /\ locals.grooming_by_location[j].mean = [num |-> 3, den |-> 2]

----------------------------------------------------------------------------
(* The social observations of df, by position.                             *)

SocialAt == {i \in 1..Len(df) : df[i].behavior_type \in {"grooming", "play"}}

PairAt(a, b) == {i \in SocialAt : df[i].otter_id = a /\ df[i].partner_id = b}

OtterAt(a) == {i \in SocialAt : df[i].otter_id = a}

SocialOtters == {df[i].otter_id : i \in SocialAt}

----------------------------------------------------------------------------
(* C5: interaction_counts maps each ordered pair (otter_id, partner_id) to *)
(* the number of rows of df with that otter, that partner and a grooming   *)
(* or play behaviour.  Rest and foraging rows count for no pair, (a, b)    *)
(* and (b, a) are counted apart, and a pair of an otter with itself is     *)
(* counted like any other.                                                 *)
C5_PairCounts ==
  Ran("social_network_analysis") =>
    LET ic == result.value
        listed == {<<ic[j].otter_id, ic[j].partner_id>> : j \in 1..Len(ic)}
        occurring == {<<df[i].otter_id, df[i].partner_id>> : i \in 1..Len(df)}
    IN  /\ ic = locals.interaction_counts
        /\ \A k \in listed \cup occurring :
             LET entries == {j \in 1..Len(ic) :
                               ic[j].otter_id = k[1] /\ ic[j].partner_id = k[2]}
             IN  IF PairAt(k[1], k[2]) = {}
                   THEN entries = {}
                   ELSE /\ Cardinality(entries) = 1
                        /\ \A j \in entries :
                             ic[j].interaction_count =
                               Cardinality(PairAt(k[1], k[2]))

\* A self-pair and another pair are listed while a rest or foraging row of
\* df is in no count.
C5_Witness ==
  /\ Ran("social_network_analysis")
  /\ Len(df) = 3
  /\ \E i \in 1..3 : df[i].behavior_type \in {"rest", "foraging"}
  /\ Len(result.value) = 2
  /\ \E j \in 1..2 : result.value[j].otter_id = result.value[j].partner_id
  /\ \E j \in 1..2 : result.value[j].otter_id # result.value[j].partner_id

----------------------------------------------------------------------------
\* The sum of the interaction_count column.
RECURSIVE SumCounts(_)
SumCounts(ic) ==
  IF Len(ic) = 0 THEN 0 ELSE Head(ic).interaction_count + SumCounts(Tail(ic))

(* C10: the pair counts partition the social observations: the counts of   *)
(* interaction_counts add up to len(social_interactions), the number of    *)
(* grooming and play rows of df; every listed pair has a count of at least *)
(* 1 and is listed once; so the number of pairs never exceeds the number   *)
(* of social interactions.                                                 *)
C10_CountsPartition ==
  Ran("social_network_analysis") =>
    LET ic == result.value
        total == Len(locals.social_interactions)
    IN  /\ total = Cardinality(SocialAt)
        /\ SumCounts(ic) = total
        /\ \A j \in 1..Len(ic) : ic[j].interaction_count >= 1
        /\ \A i, j \in 1..Len(ic) :
             (ic[i].otter_id = ic[j].otter_id
                /\ ic[i].partner_id = ic[j].partner_id) => i = j
        /\ Len(ic) <= total

\* A pair seen twice and a pair seen once: two pairs, three interactions.
C10_Witness ==
  /\ Ran("social_network_analysis")
  /\ Len(locals.social_interactions) = 3
  /\ Len(result.value) = 2
  /\ \E j \in 1..2 : result.value[j].interaction_count = 2

----------------------------------------------------------------------------
(* C3: value_counts().head(n) of the otter_id of the social rows.          *)

\* r ranks the otters of the social rows by frequency, n entries at most:
\* min(n, number of distinct otters) entries, each an otter with its exact
\* number of social rows, no otter twice, by descending count, and no
\* otter left out has a higher count than one that is in.
IsRanking(r, n) ==
  /\ Len(r) = Min(n, Cardinality(SocialOtters))
  /\ \A i \in 1..Len(r) :
       /\ r[i].value \in SocialOtters
       /\ r[i].count = Cardinality(OtterAt(r[i].value))
  /\ \A i, j \in 1..Len(r) : r[i].value = r[j].value => i = j
  /\ \A i, j \in 1..Len(r) : i < j => r[i].count >= r[j].count
  /\ \A a \in SocialOtters \ {r[i].value : i \in 1..Len(r)} :
       \A i \in 1..Len(r) : Cardinality(OtterAt(a)) <= r[i].count

\* Equal counts come in ascending order of the otter's identifier, and no
\* otter left out has the count of one that is in and a smaller identifier.
TiesAscend(r) ==
  /\ \A i, j \in 1..Len(r) :
       (i < j /\ r[i].count = r[j].count) => StrRank(r[i].value) < StrRank(r[j].value)
  /\ \A a \in SocialOtters \ {r[i].value : i \in 1..Len(r)} :
       \A i \in 1..Len(r) :
         Cardinality(OtterAt(a)) = r[i].count => StrRank(r[i].value) < StrRank(a)

(* C3 as claimed: for every topN >= 0 the ranking holds min(topN, number   *)
(* of distinct otters) entries with exact counts by descending count, and  *)
(* otters with equal counts come in ascending order of identifier whatever *)
(* their order in the table.                                               *)
C3_Original ==
  Ran("social_network_analysis") =>
    /\ IsRanking(locals.most_social, TopN) /\ TiesAscend(locals.most_social)
    /\ \A n \in 0..TopN :
         /\ IsRanking(head(locals.value_counts, n), n)
         /\ TiesAscend(head(locals.value_counts, n))

(* C3 as amended: the same without the tie-break: otters with equal counts *)
(* come in an order the identifiers do not decide.                         *)
C3_RankByCount ==
  Ran("social_network_analysis") =>
    /\ IsRanking(locals.most_social, TopN)
    /\ \A n \in 0..TopN : IsRanking(head(locals.value_counts, n), n)

\* The otter of the first social row has the lower count and ranks second,
\* and a ranking cut to one entry keeps the otter with the higher count.
C3_Witness ==
  /\ Ran("social_network_analysis")
  /\ Len(locals.most_social) = 2
  /\ locals.most_social[1].count = 2
  /\ locals.most_social[2].count = 1
  /\ Len(locals.social_interactions) = 3
  /\ locals.social_interactions[1].otter_id = locals.most_social[2].value
  /\ head(locals.value_counts, 1) = <<locals.most_social[1]>>

----------------------------------------------------------------------------
(* The two samples of the test, by position in df.                         *)

GroomingAt == Matching(df, "behavior_type", "grooming")

PlayAt == Matching(df, "behavior_type", "play")

\* The pairs (grooming row, play row) with the grooming duration the larger,
\* and those with equal durations.
PairsGreater ==
  {p \in GroomingAt \X PlayAt :
     df[p[1]].duration_minutes > df[p[2]].duration_minutes}

PairsEqual ==
  {p \in GroomingAt \X PlayAt :
     df[p[1]].duration_minutes = df[p[2]].duration_minutes}

EmptySample ==
  /\ {"behavior_type", "duration_minutes"} \subseteq columns
  /\ GroomingAt = {} \/ PlayAt = {}

----------------------------------------------------------------------------
(* C2 as claimed: called on a table with no grooming row or no play row,   *)
(* statistical_tests signals an InsufficientDataError to its caller and    *)
(* produces no statistic and no p-value; it does not return normally.      *)
C2_Original ==
  (fn = "statistical_tests" /\ EmptySample) =>
    /\ result.status = "raised"
    /\ result.exception = "InsufficientDataError"
    /\ "statistic2" \notin DOMAIN locals

(* C2 as amended: called on such a table, statistical_tests runs no test   *)
(* and produces no statistic and no p-value, and it signals nothing: it    *)
(* returns normally, with None, as it does after a test.                   *)
C2_SilentSkip ==
  (fn = "statistical_tests" /\ EmptySample) =>
    /\ result = ReturnedNone
    /\ "statistic2" \notin DOMAIN locals
    /\ DOMAIN locals = {"df", "grooming_durations", "play_durations"}

\* Grooming rows and no play row: the call has returned.
C2_Witness ==
  /\ fn = "statistical_tests"
  /\ GroomingAt # {}
  /\ PlayAt = {}
  /\ Len(locals.grooming_durations) >= 2
  /\ locals.play_durations = <<>>
  /\ result.status = "returned"

----------------------------------------------------------------------------
(* C9: for two non-empty samples the statistic is the rank-sum U statistic *)
(* under the mid-rank convention: the number of pairs (a, b) with a > b    *)
(* plus one half per pair with a = b, or the complement of that to         *)
(* |A| * |B|; so it lies in [0, |A| * |B|]; 0 or 9 for [1,2,3] against     *)
(* [4,5,6], 4.5 for [1,2,3] against itself.  (statistic2 is twice U.)      *)
C9_RankSumStatistic ==
  (fn = "statistical_tests" /\ GroomingAt # {} /\ PlayAt # {}) =>
    LET U2 == 2 * Cardinality(PairsGreater) + Cardinality(PairsEqual)
        nn == Cardinality(GroomingAt) * Cardinality(PlayAt)
    IN  /\ "statistic2" \in DOMAIN locals
        /\ locals.statistic2 = U2 \/ locals.statistic2 = 2 * nn - U2
        /\ 0 <= locals.statistic2
        /\ locals.statistic2 <= 2 * nn
        /\ mannwhitneyu2(<<1, 2, 3>>, <<4, 5, 6>>) \in {0, 18}
        /\ mannwhitneyu2(<<1, 2, 3>>, <<1, 2, 3>>) = 9

\* Two samples of two durations each with a tie across them, the statistic
\* not a whole number and neither 0 nor |A| * |B|.
C9_Witness ==
  /\ fn = "statistical_tests"
  /\ Len(locals.grooming_durations) = 2
  /\ Len(locals.play_durations) = 2
  /\ PairsEqual # {}
  /\ PairsGreater # {}
  /\ locals.statistic2 % 2 = 1
  /\ locals.statistic2 # 4

----------------------------------------------------------------------------
(* C6: the table is read-only: no call of an analysis, in any order and    *)
(* any number of times, changes the rows of df, their order, a field of a  *)
(* row or the schema.                                                      *)
C6_TableReadOnly == [][df' = df /\ columns' = columns]_vars

\* An analysis has run on a table with a row.
C6_Witness ==
  /\ fn = "statistical_tests"
  /\ columns = AllColumns
  /\ Len(df) = 1
  /\ result = ReturnedNone

----------------------------------------------------------------------------
(* The column labels each analysis looks up.                               *)

Reads(f) ==
  CASE f = "analyze_grooming_patterns" ->
         {"behavior_type", "duration_minutes", "location"}
    [] f = "analyze_play_patterns" ->
         {"behavior_type", "duration_minutes", "time_of_day"}
    [] f = "social_network_analysis" ->
         {"behavior_type", "otter_id", "partner_id"}
    [] f = "statistical_tests" -> {"behavior_type", "duration_minutes"}
    [] OTHER -> {}

(* C7 as claimed: an analysis called on a table that lacks a column it     *)
(* names signals InvalidColumnError to its caller and returns no result.   *)
C7_Original ==
  ~(Reads(fn) \subseteq columns) =>
    /\ result.status = "raised"
    /\ result.exception = "InvalidColumnError"
    /\ "value" \notin DOMAIN result

(* C7 as amended: an analysis called on such a table signals an error to   *)
(* its caller and returns no result; the error is pandas' KeyError for one *)
(* of the missing labels (the program defines no InvalidColumnError).      *)
C7_KeyError ==
  ~(Reads(fn) \subseteq columns) =>
    /\ result.status = "raised"
    /\ result.exception = "KeyError"
    /\ result.key \in Reads(fn) \ columns
    /\ "value" \notin DOMAIN result

\* The filter column is there, the partner column is not: the pair count
\* raises after the filter has run on a table with a row.
C7_Witness ==
  /\ fn = "social_network_analysis"
  /\ columns = AllColumns \ {"partner_id"}
  /\ Len(df) = 1
  /\ "social_interactions" \in DOMAIN locals
  /\ result = KeyError("partner_id")

====
